---- MODULE Spec2Model ----
(***************************************************************************)
(* The operation resolver (backendOperations.List, getBackendOperations,   *)
(* getLastOperation, getActiveOperation) and the phase entry points        *)
(* (ExecutePhase, RollbackPhase, completeOperationPlan, ResumeOperation)   *)
(* of tool/gravity/cli/operation.go.                                       *)
(*                                                                         *)
(* One behaviour is one invocation of an entry point.  List takes nothing  *)
(* from its caller (operationID is first read by the filter loop of        *)
(* getBackendOperations, after List has returned), so the behaviour starts *)
(* at the first statement of List, and the entry point and its parameters  *)
(* are drawn where they are first read.  Every source response is an input *)
(* drawn when the source is queried.                                       *)
(***************************************************************************)
EXTENDS Naturals, Integers, Sequences, FiniteSets, TLC

\* Created timestamps are 1..MaxTime, and the sources report operations of the
\* first NumTypes types of TypeNames.
MaxTime == 2
NumTypes == 2

\* ops.OperationInstall, OperationUpdate, OperationGarbageCollect,
\* OperationExpand, OperationUpdateRuntimeEnviron, OperationUpdateConfig,
\* and a type no switch of operation.go lists.
TypeNames == <<"install", "update", "garbage_collect", "expand",
               "update_environ", "update_config", "shrink">>

OpTypes == {TypeNames[i] : i \in 1..NumTypes}

\* Every type of TypeNames.
AllTypes == {TypeNames[i] : i \in DOMAIN TypeNames}

\* The operation IDs the sources report.
IDs == {"op1", "op2"}

\* ops.SiteOperation, with the fields operation.go reads: ID, Type, Created
\* and IsCompleted().
Ops == [id : IDs, type : OpTypes, created : 1..MaxTime, completed : BOOLEAN]

\* The operations of every type.
AllOps == [id : IDs, type : AllTypes, created : 1..MaxTime, completed : BOOLEAN]

\* params.OperationID: unspecified (empty), or an ID.
Filters == {""} \cup IDs

\* fsm.RootPhase, and a phase below it.
RootPhase == "/"
PhaseIDs == {RootPhase, "/init"}

\* PhaseParams without OperationID: PhaseID, Force, Timeout, SkipVersionCheck.
Params == [phaseID : PhaseIDs, force : BOOLEAN, timeout : {"1m", "5m"},
           skipVersionCheck : BOOLEAN]

\* The kind of an error returned by a collaborator (trace.IsNotFound or not).
ErrKinds == {"NotFound", "Other"}

\* What a phase handler, a plan completer or Installer.Restart returns.
Outcomes == {"ok"} \cup ErrKinds

\* The position of each source in the merge order.
MergeRank == [cluster |-> 1, update |-> 2, join |-> 3, operator |-> 4, wizard |-> 4]

VARIABLES
    pc,               \* control position: cluster, update, join, install,
                      \* wizard (inside List), listed (List returned),
                      \* fetched (getBackendOperations returned), done
    operations,       \* b.operations: per ID <<>> (no entry) or <<op>>
    clusterOperation, \* b.clusterOperation: <<>> (nil) or <<op>>
    listErr,          \* the error List returned: none, or its kind
    remote,           \* how the remote operator attempt of this pass ended
    wizard,           \* how the local wizard attempt of this pass ended
    reported,         \* per ID, the report of the source latest in the merge
                      \* order that reported the ID in this pass
    inflight,         \* <<op>> when an install source returned op, an
                      \* incomplete install operation, and the pointer is
                      \* the same operation reported completed; <<>> otherwise
    last,             \* the latest step of List: the source, how its query
                      \* ended (nil: not queried, failed, ok), and the
                      \* operations it returned
    entry,            \* the entry point invoked
    operationID,      \* its operationID parameter
    params,           \* its other parameters as the caller gave them: <<>>
                      \* (it takes none) or <<p>>
    result,           \* what getBackendOperations returned
    resolved,         \* what getLastOperation / getActiveOperation returned
    calls,            \* handlers invoked, in order, with the operation passed
                      \* and what the handler returned
    restarts,         \* number of Installer.Restart invocations
    ret               \* what the entry point returned

vars == <<pc, operations, clusterOperation, listErr, remote, wizard, reported,
          inflight, last,
          entry, operationID, params, result, resolved, calls, restarts, ret>>

listVars == <<operations, clusterOperation, listErr, remote, wizard, reported,
              inflight, last>>
callVars == <<entry, operationID, params, result, resolved, calls, restarts, ret>>

NoOperations == [i \in IDs |-> << >>]

NoReturn == [kind |-> "none", msg |-> ""]

NoStep == [src |-> "none", how |-> "none", ops |-> << >>]

----------------------------------------------------------------------------
(* backendOperations *)

\* As UpdateCache, but an entry the map already holds is kept.
UpdateCacheKeepExisting(m, op) ==
    IF m[op.id] = << >> THEN [m EXCEPT ![op.id] = <<op>>] ELSE m

\* r.operations[op.ID] = op
UpdateCache(m, op) == [m EXCEPT ![op.id] = <<op>>]

RECURSIVE UpdateCacheAll(_, _)
UpdateCacheAll(m, l) ==
    IF l = << >> THEN m ELSE UpdateCacheAll(UpdateCache(m, Head(l)), Tail(l))

\* The bookkeeping of the reports: a report replaces the one kept for its ID
\* unless that one came from a source later in the merge order.
Report(rep, src, op) ==
    IF rep[op.id] # << >> /\ MergeRank[rep[op.id][1].src] > MergeRank[src]
    THEN rep
    ELSE [rep EXCEPT ![op.id] = <<[src |-> src, op |-> op]>>]

RECURSIVE ReportAll(_, _, _)
ReportAll(rep, src, l) ==
    IF l = << >> THEN rep ELSE ReportAll(Report(rep, src, Head(l)), src, Tail(l))

\* storage.GetOperations: the operations of the cluster backend, each ID once,
\* in any order.
ClusterLists ==
    {l \in UNION {[1..n -> Ops] : n \in 0..Cardinality(IDs)} :
        \A i, j \in DOMAIN l : i # j => l[i].id # l[j].id}

\* As init, with the last operation of the list for the pointer.
initPointerLast(m, ptr, l) ==
    IF l = << >>
    THEN [operations |-> m, clusterOperation |-> ptr]
    ELSE [operations |-> UpdateCacheAll(m, l), clusterOperation |-> <<l[Len(l)]>>]

\* backendOperations.init on the list the cluster backend returned: the merged
\* set and the cluster operation pointer after it.
init(m, ptr, l) ==
    IF l = << >>
    THEN [operations |-> m, clusterOperation |-> ptr]
    ELSE [operations |-> UpdateCache(UpdateCacheAll(m, l), l[1]),
          clusterOperation |-> <<l[1]>>]

\* As isActiveInstallOperation, without the test of the pointer's type.
isActiveInstallOperationNilOnly(ptr) == ptr = << >>

\* r.clusterOperation == nil || r.clusterOperation.Type == ops.OperationInstall

isActiveInstallOperation(ptr) ==
    IF ptr = << >> THEN TRUE ELSE ptr[1].type = "install"

\* As afterOperator, without the return of line 239.
afterOperatorAlwaysWizard(how) == "wizard"

\* Where List goes after the remote operator attempt: it returns nil once
\* GetLocalSite succeeded, and goes on to the local wizard environment
\* otherwise.

afterOperator(how) ==
    IF how \in {"envErr", "nilOperator", "siteErr"} THEN "wizard" ELSE "listed"

\* The case of the FIXME of isActiveInstallOperation (lines 283-284): the
\* cluster backend reports the install operation completed, and an install
\* source returns the same operation incomplete.
installInFlight(ptr, op) ==
    IF ptr = << >> THEN << >>
    ELSE IF /\ ptr[1].type = "install"
            /\ ptr[1].completed
            /\ op.id = ptr[1].id
            /\ op.type = "install"
            /\ ~op.completed
    THEN <<op>>
    ELSE << >>

Init ==
    /\ pc = "cluster"
    /\ operations = NoOperations
    /\ clusterOperation = << >>
    /\ listErr = "none"
    /\ remote = "none"
    /\ wizard = "none"
    /\ reported = NoOperations
    /\ inflight = << >>
    /\ last = NoStep
    /\ entry = "none"
    /\ operationID = ""
    /\ params = << >>
    /\ result = << >>
    /\ resolved = [kind |-> "none", msg |-> "", op |-> << >>]
    /\ calls = << >>
    /\ restarts = 0
    /\ ret = NoReturn

\* As queryFailed, with the merged set emptied.
queryFailedClears(m) == NoOperations

\* The merged set after a source failed: init returns before it touches the
\* map (lines 256-258), getOperationAndUpdateCache only logs (lines 276-278).
queryFailed(m) == m

\* List, lines 212-221: the cluster environment cannot be created or the
\* query of its backend fails (failed), or init takes the operations the
\* backend returned.
ListCluster ==
    /\ pc = "cluster"
    /\ pc' = "update"
    /\ \/ /\ operations' = queryFailed(operations)
          /\ last' = [src |-> "cluster", how |-> "failed", ops |-> << >>]
          /\ UNCHANGED <<clusterOperation, reported>>
       \/ \E l \in ClusterLists :
            LET b == init(operations, clusterOperation, l)
            IN /\ operations' = b.operations
               /\ clusterOperation' = b.clusterOperation
               /\ reported' = ReportAll(reported, "cluster", l)
               /\ last' = [src |-> "cluster", how |-> "ok", ops |-> l]
    /\ UNCHANGED <<listErr, remote, wizard, inflight>>
    /\ UNCHANGED callVars

\* getOperationAndUpdateCache for an environment backend: the getter fails and
\* the merged set stays, or its operation is put into the merged set.
getOperationAndUpdateCache(src) ==
    \/ /\ operations' = queryFailed(operations)
       /\ last' = [src |-> src, how |-> "failed", ops |-> << >>]
       /\ UNCHANGED reported
    \/ \E op \in Ops :
         /\ operations' = UpdateCache(operations, op)
         /\ reported' = Report(reported, src, op)
         /\ last' = [src |-> src, how |-> "ok", ops |-> <<op>>]

\* An environment the caller did not supply (nil) is not queried.
skipSource(src) ==
    /\ last' = [src |-> src, how |-> "nil", ops |-> << >>]
    /\ UNCHANGED <<operations, reported>>

\* List, lines 222-225: updateEnv is nil, or its backend is queried.
ListUpdate ==
    /\ pc = "update"
    /\ pc' = "join"
    /\ \/ skipSource("update")
       \/ getOperationAndUpdateCache("update")
    /\ UNCHANGED <<clusterOperation, listErr, remote, wizard, inflight>>
    /\ UNCHANGED callVars

\* List, lines 226-229: joinEnv is nil, or its backend is queried.
ListJoin ==
    /\ pc = "join"
    /\ pc' = "install"
    /\ \/ skipSource("join")
       \/ getOperationAndUpdateCache("join")
    /\ UNCHANGED <<clusterOperation, listErr, remote, wizard, inflight>>
    /\ UNCHANGED callVars

\* List, lines 232 and 251: no install source is consulted.
ListSkipInstall ==
    /\ pc = "install"
    /\ ~isActiveInstallOperation(clusterOperation)
    /\ pc' = "listed"
    /\ last' = [src |-> "install", how |-> "nil", ops |-> << >>]
    /\ UNCHANGED <<operations, clusterOperation, listErr, remote, wizard, reported,
                   inflight>>
    /\ UNCHANGED callVars

\* List, lines 232-242: the remote operator attempt.  NewRemoteEnvironment
\* fails (envErr), or has no Operator (nilOperator), or GetLocalSite fails
\* (siteErr), or GetLastOperation fails (lastOpErr), or the operator's last
\* operation is put into the merged set (ok).
ListOperator ==
    /\ pc = "install"
    /\ isActiveInstallOperation(clusterOperation)
    /\ \/ /\ \E how \in {"envErr", "nilOperator", "siteErr", "lastOpErr"} :
               /\ remote' = how
               /\ pc' = afterOperator(how)
          /\ last' = [src |-> "operator", how |-> "failed", ops |-> << >>]
          /\ UNCHANGED <<operations, reported, inflight>>
       \/ /\ remote' = "ok"
          /\ pc' = afterOperator("ok")
          /\ \E op \in Ops :
               /\ operations' = UpdateCache(operations, op)
               /\ reported' = Report(reported, "operator", op)
               /\ inflight' = installInFlight(clusterOperation, op)
               /\ last' = [src |-> "operator", how |-> "ok", ops |-> <<op>>]
    /\ UNCHANGED <<clusterOperation, listErr, wizard>>
    /\ UNCHANGED callVars

\* List, lines 243-251: NewLocalWizardEnvironment fails and List returns its
\* error wrapped (envErr), or the wizard backend is queried and fails
\* (backendErr) or yields its last operation (ok).
ListWizard ==
    /\ pc = "wizard"
    /\ pc' = "listed"
    /\ \/ /\ wizard' = "envErr"
          /\ \E k \in ErrKinds : listErr' = k
          /\ last' = [src |-> "wizard", how |-> "failed", ops |-> << >>]
          /\ UNCHANGED <<operations, reported, inflight>>
       \/ /\ wizard' = "backendErr"
          /\ last' = [src |-> "wizard", how |-> "failed", ops |-> << >>]
          /\ UNCHANGED <<operations, reported, inflight, listErr>>
       \/ /\ wizard' = "ok"
          /\ \E op \in Ops :
               /\ operations' = UpdateCache(operations, op)
               /\ reported' = Report(reported, "wizard", op)
               /\ inflight' = installInFlight(clusterOperation, op)
               /\ last' = [src |-> "wizard", how |-> "ok", ops |-> <<op>>]
          /\ UNCHANGED listErr
    /\ UNCHANGED <<clusterOperation, remote>>
    /\ UNCHANGED callVars

----------------------------------------------------------------------------
(* getBackendOperations, getLastOperation, getActiveOperation *)

\* As matching, without the test of operationID.
matchingAll(m, id) ==
    {m[i][1] : i \in {j \in IDs : m[j] # << >>}}

\* The filter loop of getBackendOperations: the operations op of the map with
\* operationID == "" || operationID == op.ID.
matching(m, id) ==
    {m[i][1] : i \in {j \in IDs : m[j] # << >> /\ (id = "" \/ id = m[j][1].id)}}

\* As less, with Before for After.
lessBefore(a, b) == a.created < b.created

\* result[i].Created.After(result[j].Created)

less(a, b) == a.created > b.created

\* sort.Slice leaves some permutation in which no element is less than one
\* before it; the order of the map iteration and of equal elements is free.
sorted(S) ==
    {s \in [1..Cardinality(S) -> S] :
        /\ \A i, j \in DOMAIN s : i # j => s[i] # s[j]
        /\ \A i, j \in DOMAIN s : i < j => ~less(s[j], s[i])}

\* What getBackendOperations may return after List: the error of List, or the
\* matching operations sorted.
getBackendOperations(m, err, id) ==
    IF err # "none"
    THEN {[err |-> err, result |-> << >>]}
    ELSE {[err |-> "none", result |-> s] : s \in sorted(matching(m, id))}

NotFound(msg) == [kind |-> "NotFound", msg |-> msg, op |-> << >>]

\* As emptyResult, without the test of operationID.
emptyResultAlwaysNoOperation(id) == NotFound("no operation found")

\* lines 149-154 and 173-178: the error for an empty result.
emptyResult(id) ==
    IF id # "" THEN NotFound("no operation with ID found")
    ELSE NotFound("no operation found")

getLastOperation(b, id) ==
    IF b.err # "none"
    THEN [kind |-> b.err, msg |-> "failed to read local wizard environment", op |-> << >>]
    ELSE IF Len(b.result) = 0 THEN emptyResult(id)
    ELSE [kind |-> "ok", msg |-> "", op |-> <<b.result[1]>>]

\* As getActiveOperationFromList, without the test of IsCompleted.
getActiveOperationFromListFirst(l) ==
    IF l = << >> THEN NotFound("no active operations found")
    ELSE [kind |-> "ok", msg |-> "", op |-> <<Head(l)>>]

\* The first operation of the list that is not completed.
RECURSIVE getActiveOperationFromList(_)
getActiveOperationFromList(l) ==
    IF l = << >> THEN NotFound("no active operations found")
    ELSE IF ~Head(l).completed THEN [kind |-> "ok", msg |-> "", op |-> <<Head(l)>>]
    ELSE getActiveOperationFromList(Tail(l))

getActiveOperation(b, id) ==
    IF b.err # "none"
    THEN [kind |-> b.err, msg |-> "failed to read local wizard environment", op |-> << >>]
    ELSE IF Len(b.result) = 0 THEN emptyResult(id)
    ELSE getActiveOperationFromList(b.result)

----------------------------------------------------------------------------
(* ExecutePhase, RollbackPhase, completeOperationPlan, ResumeOperation *)

\* As executeHandler, with the case of the install operation only.
executeHandlerInstallOnly(type) ==
    IF type = "install" THEN "Installer.ExecutePhase" ELSE ""

\* The switch of ExecutePhase: the handler of an operation type, "" for the
\* default branch.
executeHandler(type) ==
    CASE type = "install" -> "Installer.ExecutePhase"
      [] type = "expand" -> "executeJoinPhase"
      [] type = "update" -> "executeUpdatePhase"
      [] type = "update_environ" -> "executeEnvironPhase"
      [] type = "update_config" -> "executeConfigPhase"
      [] type = "garbage_collect" -> "executeGarbageCollectPhase"
      [] OTHER -> ""

\* As rollbackHandler, with a handler for every type.
rollbackHandlerAnyType(type) ==
    IF type = "install" THEN "Installer.RollbackPhase" ELSE "rollbackUpdatePhase"

\* The switch of RollbackPhase.
rollbackHandler(type) ==
    CASE type = "install" -> "Installer.RollbackPhase"
      [] type = "expand" -> "rollbackJoinPhase"
      [] type = "update" -> "rollbackUpdatePhase"
      [] type = "update_environ" -> "rollbackEnvironPhase"
      [] type = "update_config" -> "rollbackConfigPhase"
      [] OTHER -> ""

\* The switch of completeOperationPlan.
completeHandler(type) ==
    CASE type = "install" -> "completeInstallPlan"
      [] type = "expand" -> "completeJoinPlan"
      [] type = "update" -> "completeUpdatePlan"
      [] type = "update_environ" -> "completeEnvironPlan"
      [] type = "update_config" -> "completeConfigPlan"
      [] OTHER -> ""

\* The PhaseParams a handler is given: those of the entry point, with the
\* OperationID of the call.
PhaseParams(p, id) ==
    [operationID |-> id, phaseID |-> p.phaseID, force |-> p.force,
     timeout |-> p.timeout, skipVersionCheck |-> p.skipVersionCheck]

\* As resumeParams, without the assignment of line 56.
resumeParamsAsGiven(p) == p

\* ResumeOperation, line 56: params.PhaseID = fsm.RootPhase
resumeParams(p) == [p EXCEPT !.phaseID = RootPhase]

\* The body shared by the three phase entry points: resolve the active
\* operation, return its error, or invoke the handler hn of its type with the
\* parameters ps (<<>> for a plan completer, which takes none) and the
\* operation; the outcome h of the handler is what the entry point returns.
phase(a, hn, h, ps) ==
    IF a.kind # "ok"
    THEN [calls |-> << >>, ret |-> [kind |-> a.kind, msg |-> a.msg]]
    ELSE IF hn = ""
    THEN [calls |-> << >>,
          ret |-> [kind |-> "BadParameter", msg |-> "operation type does not support"]]
    ELSE [calls |-> <<[name |-> hn, params |-> ps, op |-> a.op[1], outcome |-> h]>>,
          ret |-> [kind |-> h, msg |-> IF h = "ok" THEN "" ELSE "handler"]]

\* getBackendOperations, lines 189-202: List has returned; the operations
\* matching operationID are sorted, or the error of List is returned.  b, the
\* backendOperations of the pass, is gone when the function returns; the
\* merged set is kept on record.
GetBackendOperations ==
    /\ pc = "listed"
    /\ pc' = "fetched"
    /\ \E id \in Filters : \E b \in getBackendOperations(operations, listErr, id) :
         /\ operationID' = id
         /\ result' = b.result
    /\ clusterOperation' = << >>
    /\ remote' = "none"
    /\ wizard' = "none"
    /\ reported' = NoOperations
    /\ last' = NoStep
    /\ UNCHANGED <<operations, listErr, inflight, entry, params, resolved, calls, restarts, ret>>

\* What getBackendOperations returned to its caller.
fetched == [err |-> listErr, result |-> result]

\* The state an entry point leaves when it returns.
Return(e, ps, a, c, n, r) ==
    /\ pc' = "done"
    /\ entry' = e
    /\ params' = ps
    /\ resolved' = a
    /\ calls' = c
    /\ restarts' = n
    /\ ret' = r
    /\ UNCHANGED <<operationID, result>>
    /\ UNCHANGED listVars

CallGetLastOperation ==
    /\ pc = "fetched"
    /\ LET a == getLastOperation(fetched, operationID)
       IN Return("getLastOperation", << >>, a, << >>, 0,
                 [kind |-> a.kind, msg |-> a.msg])

ExecutePhase ==
    /\ pc = "fetched"
    /\ \E ps \in Params : \E h \in Outcomes :
         LET a == getActiveOperation(fetched, operationID)
             p == phase(a, IF a.kind = "ok" THEN executeHandler(a.op[1].type) ELSE "", h,
                        <<PhaseParams(ps, operationID)>>)
         IN Return("ExecutePhase", <<ps>>, a, p.calls, 0, p.ret)

RollbackPhase ==
    /\ pc = "fetched"
    /\ \E ps \in Params : \E h \in Outcomes :
         LET a == getActiveOperation(fetched, operationID)
             p == phase(a, IF a.kind = "ok" THEN rollbackHandler(a.op[1].type) ELSE "", h,
                        <<PhaseParams(ps, operationID)>>)
         IN Return("RollbackPhase", <<ps>>, a, p.calls, 0, p.ret)

completeOperationPlan ==
    /\ pc = "fetched"
    /\ \E h \in Outcomes :
         LET a == getActiveOperation(fetched, operationID)
             p == phase(a, IF a.kind = "ok" THEN completeHandler(a.op[1].type) ELSE "", h,
                        << >>)
         IN Return("completeOperationPlan", << >>, a, p.calls, 0, p.ret)

\* ResumeOperation: ExecutePhase with the root phase, and Installer.Restart
\* (outcome r) when ExecutePhase returned a NotFound error.
ResumeOperation ==
    /\ pc = "fetched"
    /\ \E ps \in Params : \E h \in Outcomes : \E r \in Outcomes :
         LET a == getActiveOperation(fetched, operationID)
             p == phase(a, IF a.kind = "ok" THEN executeHandler(a.op[1].type) ELSE "", h,
                        <<PhaseParams(resumeParams(ps), operationID)>>)
         IN IF p.ret.kind = "NotFound"
            THEN Return("ResumeOperation", <<ps>>, a, p.calls, 1,
                        [kind |-> r, msg |-> IF r = "ok" THEN "" ELSE "restart"])
            ELSE Return("ResumeOperation", <<ps>>, a, p.calls, 0, p.ret)

Next ==
    \/ ListCluster
    \/ ListUpdate
    \/ ListJoin
    \/ ListSkipInstall
    \/ ListOperator
    \/ ListWizard
    \/ GetBackendOperations
    \/ CallGetLastOperation
    \/ ExecutePhase
    \/ RollbackPhase
    \/ completeOperationPlan
    \/ ResumeOperation

Spec == Init /\ [][Next]_vars

\* The merged sets List can return over the operations of every type, each
\* entry carrying the ID of its key.
MergedSets ==
    {m \in [IDs -> {<< >>} \cup {<<o>> : o \in AllOps}] :
        \A i \in IDs : m[i] # << >> => m[i][1].id = i}

\* The entry points after a List that returned a merged set of operations of
\* any type.
InitDispatch ==
    /\ pc = "listed"
    /\ operations \in MergedSets
    /\ clusterOperation = << >>
    /\ listErr = "none"
    /\ remote = "none"
    /\ wizard = "none"
    /\ reported = NoOperations
    /\ inflight = << >>
    /\ last = NoStep
    /\ entry = "none"
    /\ operationID = ""
    /\ params = << >>
    /\ result = << >>
    /\ resolved = [kind |-> "none", msg |-> "", op |-> << >>]
    /\ calls = << >>
    /\ restarts = 0
    /\ ret = NoReturn

NextDispatch ==
    \/ GetBackendOperations
    \/ CallGetLastOperation
    \/ ExecutePhase
    \/ RollbackPhase
    \/ completeOperationPlan
    \/ ResumeOperation

SpecDispatch == InitDispatch /\ [][NextDispatch]_vars

----------------------------------------------------------------------------
(* The claims *)

\* The operations of the merged set that match the operationID of the call.
MatchingMerged ==
    {o \in AllOps : operations[o.id] = <<o>> /\ (operationID = "" \/ o.id = operationID)}

IncompleteMerged == {o \in MatchingMerged : ~o.completed}

PhaseEntries == {"ExecutePhase", "RollbackPhase", "completeOperationPlan", "ResumeOperation"}

\* C1: throughout List and when it returns, the merged set holds for every ID
\* at most one operation, which carries that ID, and it is the version
\* reported by the source latest in the merge order cluster, update-env,
\* join-env, install among the sources that reported the ID in this pass; an
\* ID no source reported has no entry.
C1_MergePrecedence ==
    pc \in {"cluster", "update", "join", "install", "wizard", "listed"} =>
        \A id \in IDs :
            /\ operations[id] =
                 (IF reported[id] = << >> THEN << >> ELSE <<reported[id][1].op>>)
            /\ operations[id] # << >> => operations[id][1].id = id

\* The cluster backend and the update environment reported different versions
\* of one ID, and the update environment's is the latest report of that ID.
C1_Witness ==
    /\ pc = "listed"
    /\ clusterOperation # << >>
    /\ LET c == clusterOperation[1]
       IN /\ reported[c.id] # << >>
          /\ reported[c.id][1].src = "update"
          /\ reported[c.id][1].op # c
          /\ operations[c.id] = <<reported[c.id][1].op>>

\* C2: when List has returned, an install source (the remote operator, the
\* local wizard environment) was consulted if and only if the cluster
\* operation pointer is absent or of type install.
C2_InstallConsultation ==
    pc = "listed" =>
        LET active == IF clusterOperation = << >> THEN TRUE
                      ELSE clusterOperation[1].type = "install"
        IN /\ (remote # "none") <=> active
           /\ (wizard # "none") => active

\* The pointer is an operation of another type, the update environment
\* reported an operation, and no install source was consulted.
C2_Witness ==
    /\ pc = "listed"
    /\ clusterOperation # << >>
    /\ clusterOperation[1].type # "install"
    /\ \E id \in IDs : reported[id] # << >> /\ reported[id][1].src = "update"
    /\ remote = "none"
    /\ wizard = "none"

\* C3 (as claimed): List never returns an error because of the install
\* sources, and getLastOperation fails with NotFound only.
C3_ListNeverFails ==
    /\ pc = "listed" => listErr = "none"
    /\ (pc = "done" /\ entry = "getLastOperation" /\ ret.kind # "ok") =>
           ret.kind = "NotFound"

\* C4 (as claimed): whenever the remote operator attempt did not yield an
\* operation, at whichever step, the local wizard backend was queried, and its
\* operation, if any, is in the merged set.
C4_FallbackToWizard ==
    (pc = "listed" /\ remote \in {"envErr", "nilOperator", "siteErr", "lastOpErr"}) =>
        /\ wizard \in {"ok", "backendErr"}
        /\ wizard = "ok" =>
             \E id \in IDs : /\ reported[id] # << >>
                             /\ reported[id][1].src = "wizard"
                             /\ operations[id] = <<reported[id][1].op>>

\* C5: when the remote operator yielded its operation, that operation is in
\* the merged set and the local wizard environment was not consulted in this
\* pass.
C5_OperatorSuccessStops ==
    (pc = "listed" /\ remote = "ok") =>
        /\ wizard = "none"
        /\ listErr = "none"
        /\ \E id \in IDs : /\ reported[id] # << >>
                           /\ reported[id][1].src = "operator"
                           /\ operations[id] = <<reported[id][1].op>>

\* The pointer is an install operation and the remote operator reported a
\* different version of it.
C5_Witness ==
    /\ pc = "listed"
    /\ remote = "ok"
    /\ clusterOperation # << >>
    /\ LET c == clusterOperation[1]
       IN /\ reported[c.id] # << >>
          /\ reported[c.id][1].src = "operator"
          /\ reported[c.id][1].op # c

\* C6 (as claimed): ResumeOperation invokes Installer.Restart exactly when the
\* resolution found no operation or no active operation, and then returns
\* what Restart returned.
C6_RestartIffNotResolved ==
    (pc = "done" /\ entry = "ResumeOperation") =>
        /\ (restarts > 0) <=>
             resolved.msg \in {"no operation found", "no operation with ID found",
                               "no active operations found"}
        /\ resolved.kind = "ok" => restarts = 0

\* C7 (as claimed): when the handler ResumeOperation invoked failed, its
\* error is what ResumeOperation returns and Installer.Restart is not invoked.
C7_HandlerErrorPropagated ==
    (pc = "done" /\ entry = "ResumeOperation" /\ calls # << >>
        /\ calls[1].outcome # "ok") =>
        /\ restarts = 0
        /\ ret = [kind |-> calls[1].outcome, msg |-> "handler"]

\* C8: when List returned the merged set and it holds an operation matching
\* operationID, getLastOperation succeeds with a matching operation of the
\* merged set whose Created is the maximum among the matching ones.
C8_MostRecent ==
    (pc = "done" /\ entry = "getLastOperation" /\ listErr = "none"
        /\ MatchingMerged # {}) =>
        /\ resolved.kind = "ok"
        /\ ret.kind = "ok"
        /\ resolved.op # << >>
        /\ resolved.op[1] \in MatchingMerged
        /\ \A o \in MatchingMerged : o.created <= resolved.op[1].created

\* No filter, two candidates created at different times.
C8_Witness ==
    /\ pc = "done"
    /\ entry = "getLastOperation"
    /\ operationID = ""
    /\ resolved.kind = "ok"
    /\ \E o \in MatchingMerged : o.created < resolved.op[1].created

\* C9: when List returned the merged set and an operation matching
\* operationID is incomplete, getActiveOperation succeeds with an incomplete
\* matching operation whose Created is the maximum among the incomplete
\* matching ones.
C9_Active ==
    (pc = "done" /\ entry \in PhaseEntries /\ listErr = "none"
        /\ IncompleteMerged # {}) =>
        /\ resolved.kind = "ok"
        /\ resolved.op # << >>
        /\ resolved.op[1] \in IncompleteMerged
        /\ \A o \in IncompleteMerged : o.created <= resolved.op[1].created

\* A completed operation created later than the incomplete one that was
\* resolved.
C9_Witness ==
    /\ pc = "done"
    /\ entry = "ExecutePhase"
    /\ resolved.kind = "ok"
    /\ ~resolved.op[1].completed
    /\ \E o \in MatchingMerged : o.completed /\ o.created > resolved.op[1].created

\* C10: when List returned the merged set and no operation of it matches
\* operationID, getLastOperation and getActiveOperation fail with NotFound,
\* "no operation with ID found" for a given ID and "no operation found" for
\* none; when operations match and all are completed, getActiveOperation fails
\* with NotFound "no active operations found".  No handler is invoked, and
\* every entry point but ResumeOperation returns that error.
C10_NotFound ==
    (pc = "done" /\ listErr = "none") =>
        /\ MatchingMerged = {} =>
             resolved = [kind |-> "NotFound",
                         msg |-> IF operationID # "" THEN "no operation with ID found"
                                 ELSE "no operation found",
                         op |-> << >>]
        /\ (entry \in PhaseEntries /\ MatchingMerged # {} /\ IncompleteMerged = {}) =>
             resolved = [kind |-> "NotFound", msg |-> "no active operations found",
                         op |-> << >>]
        /\ (MatchingMerged = {} \/ (entry \in PhaseEntries /\ IncompleteMerged = {})) =>
             /\ calls = << >>
             /\ entry # "ResumeOperation" =>
                  ret = [kind |-> "NotFound", msg |-> resolved.msg]

\* An ID is asked for that the merged set, which is not empty, does not hold.
C10_Witness ==
    /\ pc = "done"
    /\ entry = "getLastOperation"
    /\ operationID # ""
    /\ \E id \in IDs : operations[id] # << >>
    /\ MatchingMerged = {}
    /\ ret = [kind |-> "NotFound", msg |-> "no operation with ID found"]

\* The dispatch table: entry point, operation type, handler.
DispatchTable ==
    {<<"ExecutePhase", "install", "Installer.ExecutePhase">>,
     <<"ExecutePhase", "expand", "executeJoinPhase">>,
     <<"ExecutePhase", "update", "executeUpdatePhase">>,
     <<"ExecutePhase", "update_environ", "executeEnvironPhase">>,
     <<"ExecutePhase", "update_config", "executeConfigPhase">>,
     <<"ExecutePhase", "garbage_collect", "executeGarbageCollectPhase">>,
     <<"RollbackPhase", "install", "Installer.RollbackPhase">>,
     <<"RollbackPhase", "expand", "rollbackJoinPhase">>,
     <<"RollbackPhase", "update", "rollbackUpdatePhase">>,
     <<"RollbackPhase", "update_environ", "rollbackEnvironPhase">>,
     <<"RollbackPhase", "update_config", "rollbackConfigPhase">>,
     <<"completeOperationPlan", "install", "completeInstallPlan">>,
     <<"completeOperationPlan", "expand", "completeJoinPlan">>,
     <<"completeOperationPlan", "update", "completeUpdatePlan">>,
     <<"completeOperationPlan", "update_environ", "completeEnvironPlan">>,
     <<"completeOperationPlan", "update_config", "completeConfigPlan">>}

\* C11: when ExecutePhase, RollbackPhase or completeOperationPlan resolved an
\* operation whose type the dispatch table lists for the entry point, exactly
\* one handler is invoked, it is the one the table names for the type and the
\* entry point, it is given the resolved operation, and what it returns is
\* what the entry point returns.
C11_Dispatch ==
    (pc = "done" /\ resolved.kind = "ok") =>
        \A t \in DispatchTable :
            (t[1] = entry /\ t[2] = resolved.op[1].type) =>
                /\ Len(calls) = 1
                /\ calls[1].name = t[3]
                /\ calls[1].op = resolved.op[1]
                /\ ret.kind = calls[1].outcome
                /\ restarts = 0

\* ExecutePhase on an expand operation: the join handler ran and failed, and
\* its error is returned.
C11_Witness ==
    /\ pc = "done"
    /\ entry = "ExecutePhase"
    /\ resolved.kind = "ok"
    /\ resolved.op[1].type = "expand"
    /\ Len(calls) = 1
    /\ calls[1].name = "executeJoinPhase"
    /\ calls[1].outcome = "Other"
    /\ ret.kind = "Other"

\* C12: when ExecutePhase, RollbackPhase or completeOperationPlan resolved an
\* operation of a type the entry point does not support (a garbage collection
\* for rollback and completion, a type no entry point lists for all three),
\* the entry point fails with BadParameter and invokes no handler, no plan
\* completer and no method of Installer.
C12_Unsupported ==
    (pc = "done" /\ resolved.kind = "ok"
        /\ \/ /\ entry \in {"ExecutePhase", "RollbackPhase", "completeOperationPlan"}
              /\ resolved.op[1].type = "shrink"
           \/ /\ entry \in {"RollbackPhase", "completeOperationPlan"}
              /\ resolved.op[1].type = "garbage_collect") =>
        /\ ret.kind = "BadParameter"
        /\ calls = << >>
        /\ restarts = 0

\* RollbackPhase on a garbage collection.
C12_Witness ==
    /\ pc = "done"
    /\ entry = "RollbackPhase"
    /\ resolved.kind = "ok"
    /\ resolved.op[1].type = "garbage_collect"
    /\ ret.kind = "BadParameter"
    /\ calls = << >>

\* C13: the handler ResumeOperation invokes is given the root phase whatever
\* PhaseID the caller gave, and the OperationID, Force, Timeout and
\* SkipVersionCheck the caller gave.
C13_ResumeRootPhase ==
    (pc = "done" /\ entry = "ResumeOperation" /\ calls # << >>) =>
        LET given == params[1]
            passed == calls[1].params[1]
        IN /\ passed.phaseID = "/"
           /\ passed.operationID = operationID
           /\ passed.force = given.force
           /\ passed.timeout = given.timeout
           /\ passed.skipVersionCheck = given.skipVersionCheck

\* The caller gave another phase, an operation ID and Force.
C13_Witness ==
    /\ pc = "done"
    /\ entry = "ResumeOperation"
    /\ calls # << >>
    /\ params[1].phaseID = "/init"
    /\ params[1].force
    /\ operationID # ""
    /\ calls[1].params[1].phaseID = "/"
    /\ calls[1].params[1].operationID = operationID
    /\ calls[1].params[1].force

\* C14: a step of List in which the cluster backend, the update environment's
\* backend or the join environment's backend fails leaves the merged set and
\* the cluster operation pointer as they were, goes on to the next source of
\* the merge order, and records no error for List; List has no error to
\* return while it is at one of these sources or at the install sources.
C14_FailureSwallowed ==
    /\ [][(pc \in {"cluster", "update", "join"} /\ last'.how = "failed") =>
            /\ operations' = operations
            /\ clusterOperation' = clusterOperation
            /\ listErr' = "none"
            /\ pc' = (CASE pc = "cluster" -> "update"
                        [] pc = "update" -> "join"
                        [] pc = "join" -> "install")]_vars
    /\ [](pc \in {"cluster", "update", "join", "install"} => listErr = "none")

\* The update environment's backend failed after the cluster backend had
\* returned operations, and List is about to consult the join environment.
C14_Witness ==
    /\ pc = "join"
    /\ last = [src |-> "update", how |-> "failed", ops |-> << >>]
    /\ clusterOperation # << >>
    /\ operations # NoOperations
    /\ listErr = "none"

\* C15 (as claimed): when the cluster backend returned operations, the
\* cluster operation pointer is the one with the latest Created among them, in
\* whichever order they were returned, and all of them are in the merged set.
C15_PointerLatest ==
    (pc = "update" /\ last.how = "ok" /\ last.ops # << >>) =>
        /\ clusterOperation # << >>
        /\ \E i \in DOMAIN last.ops : clusterOperation[1] = last.ops[i]
        /\ \A i \in DOMAIN last.ops : last.ops[i].created <= clusterOperation[1].created
        /\ \A i \in DOMAIN last.ops : operations[last.ops[i].id] = <<last.ops[i]>>

\* C15 (amended): when the cluster backend returned operations, the cluster
\* operation pointer is the first operation of the list it returned, which is
\* the one with the latest Created whenever the list is ordered most recent
\* first, and all of them are in the merged set.
C15_PointerFirst ==
    (pc = "update" /\ last.how = "ok" /\ last.ops # << >>) =>
        /\ clusterOperation = <<last.ops[1]>>
        /\ (\A i, j \in DOMAIN last.ops :
                i < j => last.ops[i].created >= last.ops[j].created) =>
             \A i \in DOMAIN last.ops : last.ops[i].created <= clusterOperation[1].created
        /\ \A i \in DOMAIN last.ops : operations[last.ops[i].id] = <<last.ops[i]>>

\* The cluster backend returned an older operation before a newer one, and
\* the pointer is the older one.
C15_Witness ==
    /\ pc = "update"
    /\ last.how = "ok"
    /\ Len(last.ops) = 2
    /\ last.ops[1].created < last.ops[2].created
    /\ clusterOperation = <<last.ops[1]>>

\* C16 (as claimed): when the pointer is the install operation reported
\* completed and an install source returned the same operation incomplete,
\* ExecutePhase and ResumeOperation, asked for that operation or for none,
\* resolve the install source's version and invoke Installer.ExecutePhase on
\* it.
C16_InstallInFlight ==
    (pc = "done" /\ entry \in {"ExecutePhase", "ResumeOperation"}
        /\ inflight # << >> /\ operationID \in {"", inflight[1].id}) =>
        /\ resolved = [kind |-> "ok", msg |-> "", op |-> inflight]
        /\ Len(calls) = 1
        /\ calls[1].name = "Installer.ExecutePhase"
        /\ calls[1].op = inflight[1]

\* C16 (amended): in that case they resolve the install source's version and
\* invoke Installer.ExecutePhase on it when every other incomplete operation
\* of the merged set that matches operationID was created earlier.
C16_InstallInFlightMostRecent ==
    (pc = "done" /\ entry \in {"ExecutePhase", "ResumeOperation"}
        /\ inflight # << >> /\ operationID \in {"", inflight[1].id}
        /\ \A o \in IncompleteMerged \ {inflight[1]} : o.created < inflight[1].created) =>
        /\ resolved = [kind |-> "ok", msg |-> "", op |-> inflight]
        /\ Len(calls) = 1
        /\ calls[1].name = "Installer.ExecutePhase"
        /\ calls[1].op = inflight[1]

\* ResumeOperation, asked for no operation in particular, ran the installer
\* on the install source's version, with an older incomplete operation in the
\* merged set.
C16_Witness ==
    /\ pc = "done"
    /\ entry = "ResumeOperation"
    /\ operationID = ""
    /\ inflight # << >>
    /\ \E o \in IncompleteMerged : o.created < inflight[1].created
    /\ resolved.op = inflight
    /\ Len(calls) = 1
    /\ calls[1].name = "Installer.ExecutePhase"
    /\ restarts = 0

\* C17 (as claimed): when operationID is empty, the operation whose handler
\* ExecutePhase, RollbackPhase or completeOperationPlan invokes is the last
\* operation: no operation of the merged set was created later.
C17_DispatchOnLast ==
    (pc = "done"
        /\ entry \in {"ExecutePhase", "RollbackPhase", "completeOperationPlan"}
        /\ operationID = "" /\ calls # << >>) =>
        \A id \in IDs :
            operations[id] # << >> => operations[id][1].created <= calls[1].op.created

\* C18: an entry point invokes at most one handler, and only after the
\* resolution succeeded, on the operation it resolved, which is in the merged
\* set, is not completed, and carries operationID when that is not empty;
\* after a failed resolution it invokes none.
C18_HandlerOnce ==
    (pc = "done" /\ entry \in PhaseEntries) =>
        /\ Len(calls) <= 1
        /\ resolved.kind # "ok" => calls = << >>
        /\ calls # << >> =>
             /\ resolved.kind = "ok"
             /\ calls[1].op = resolved.op[1]
             /\ operations[calls[1].op.id] = <<calls[1].op>>
             /\ ~calls[1].op.completed
             /\ operationID # "" => calls[1].op.id = operationID

\* A handler ran on the operation asked for by ID, while the merged set holds
\* a later incomplete operation of another ID.
C18_Witness ==
    /\ pc = "done"
    /\ entry = "RollbackPhase"
    /\ operationID # ""
    /\ Len(calls) = 1
    /\ calls[1].op.id = operationID
    /\ \E id \in IDs :
         /\ id # operationID
         /\ operations[id] # << >>
         /\ ~operations[id][1].completed
         /\ operations[id][1].created > calls[1].op.created

====
